---- MODULE Spec2Model ----
(***************************************************************************)
(* CisternWaterLevelSensor: ESP32 firmware that measures the fill level of *)
(* a cistern with an ultrasonic sensor and publishes it over MQTT.         *)
(*                                                                         *)
(* src/CisternWaterLevelSensor.ino holds two sketches: the current one     *)
(* (lines 1-475) and an older one (lines 477-962), followed by the README. *)
(* The variable sketch says which of the two is flashed; they differ in    *)
(* the bus-session ensure step (ensureMQTTConnected / ensureMQTT).         *)
(*                                                                         *)
(* Conventions                                                             *)
(*   - times are milliseconds; millis() is the variable now, the wall      *)
(*     clock is the variable wall (ms since midnight of day 0)             *)
(*   - a distance is an integer number of 1/100000 mm, so that             *)
(*     duration * 0.16868 is exact                                         *)
(*   - a String is a sequence of tokens (TLA+ strings); concatenation is   *)
(*     \o; the token " -- " occurs in no other token                       *)
(*   - the regression of calculateTrendSlope is computed exactly, over     *)
(*     naturals of unbounded size (sequences of base-10000 digits),        *)
(*     where the code computes in double precision                         *)
(***************************************************************************)
EXTENDS Integers, Sequences, FiniteSets, Bags, TLC

\* -------------------------------------------------------------------------
\* Program constants
\* -------------------------------------------------------------------------
UNITS_PER_MM == 100000
US_TO_MM_FACTOR == 16868
DIST_EMPTY_MM == 1390
DIST_FULL_MM == 240
MIN_PLAUSIBLE_MM == 200
MAX_PLAUSIBLE_MM == 2000
MEASUREMENT_INTERVAL_MS == 60000
SEND_INTERVAL_MS == 3600000
MIN_CHANGE_MM == 5
HISTORY_SIZE == 60
MIN_TREND_SAMPLES == 5
MQTT_RETRY_MS == 10000
SETUP_DELAY_MS == 2000
MS_PER_MINUTE == 60000
REBOOT_HOUR == 2
REBOOT_MINUTE == 0

\* -------------------------------------------------------------------------
\* Bounds of the model
\* -------------------------------------------------------------------------
\* the granularity of time: the clocks advance in steps of TimeStep ms
TimeStep == 30000
\* how many times the clocks advance in one run
MaxSteps == 4
\* how many boots (resets of any kind) one run holds
MaxBoots == 2
\* the connection attempts counted within one ensure step saturate here
AttemptCap == 3
\* how many disturbances (link lost, broker gone, reset) one run holds
MaxFaults == 1
\* the step of the clock in steady operation, in ms
SteadyStep == 30000
\* the end of a run in steady operation, in ms
SteadyHorizon == 3700000
\* the number of measurements of loop() during which the level moves
LevelMoves == 2

\* reconnection: the clock's step and the end of the run, in ms
RetryStep == 5000
RetryHorizon == 40000
\* the trend window: the clock's step and the end of the run, in ms
TrendStep == 60000
TrendHorizon == 4000000

\* -------------------------------------------------------------------------
\* Naturals of unbounded size: little-endian sequences of base-10000 digits,
\* <<>> is 0 and the last digit is never 0.
\* -------------------------------------------------------------------------
BigBase == 100 * 100

RECURSIVE BigOf(_)
BigOf(n) == IF n = 0 THEN <<>> ELSE <<n % BigBase>> \o BigOf(n \div BigBase)

\* the sum of the naturals f[i]: the bag that holds f[i] + 1 copies of every i
\* has one element per i more than that
Sum(f) == BagCardinality([i \in DOMAIN f |-> f[i] + 1]) - Cardinality(DOMAIN f)

\* digit i of a, 0 where a has no digit
BigDigit(a, i) == IF 1 <= i /\ i <= Len(a) THEN a[i] ELSE 0

RECURSIVE BigTrim(_)
BigTrim(a) ==
  IF a = <<>> THEN <<>>
  ELSE IF a[Len(a)] = 0 THEN BigTrim(SubSeq(a, 1, Len(a) - 1)) ELSE a

\* the digits of a from digit i on with the carry c worked in; the digits of a
\* may exceed the base
RECURSIVE BigCarry(_, _, _)
BigCarry(a, i, c) ==
  IF i > Len(a)
  THEN IF c = 0 THEN <<>> ELSE <<c % BigBase>> \o BigCarry(a, i, c \div BigBase)
  ELSE <<(a[i] + c) % BigBase>> \o BigCarry(a, i + 1, (a[i] + c) \div BigBase)

\* the number whose digits, not yet carried, are a (a \o <<>> is a as a tuple)
BigNormal(a) == BigTrim(BigCarry(a \o <<>>, 1, 0))

\* a - b for a >= b
RECURSIVE BigSubB(_, _, _)
BigSubB(a, b, borrow) ==
  IF a = <<>> THEN <<>>
  ELSE LET db == IF b = <<>> THEN 0 ELSE Head(b)
           tb == IF b = <<>> THEN <<>> ELSE Tail(b)
           d == Head(a) - db - borrow
       IN IF d < 0 THEN <<d + BigBase>> \o BigSubB(Tail(a), tb, 1)
                   ELSE <<d>> \o BigSubB(Tail(a), tb, 0)

BigSub(a, b) == BigTrim(BigSubB(a, b, 0))

\* digit k of a * b before carrying: the sum of the a[i] * b[k + 1 - i]
BigConv(a, b, k) == Sum([i \in 1..Len(a) |-> a[i] * BigDigit(b, k + 1 - i)])

\* a * b: the products of the digits summed by place, then carried
BigMul(a, b) ==
  IF a = <<>> \/ b = <<>> THEN <<>>
  ELSE BigNormal([k \in 1..(Len(a) + Len(b) - 1) |-> BigConv(a, b, k)])

RECURSIVE BigLess(_, _)
BigLess(a, b) ==
  IF Len(a) # Len(b) THEN Len(a) < Len(b)
  ELSE IF a = <<>> THEN FALSE
  ELSE IF a[Len(a)] # b[Len(b)] THEN a[Len(a)] < b[Len(b)]
  ELSE BigLess(SubSeq(a, 1, Len(a) - 1), SubSeq(b, 1, Len(b) - 1))

\* 2^32 = 42 9496 7296: the width of unsigned long on the ESP32
Big2Pow32 == <<7296, 9496, 42>>

\* a - b in unsigned long arithmetic, for 0 <= a, b < 2^31
U32Sub(a, b) ==
  IF a >= b THEN BigOf(a - b) ELSE BigSub(Big2Pow32, BigOf(b - a))

\* -------------------------------------------------------------------------
\* State
\* -------------------------------------------------------------------------
VARIABLES
  sketch,              \* 1: the current sketch (lines 1-475), 2: the older one
  pc,                  \* where the firmware is: setup_delay, setup_wifi,
                       \* setup_mqtt, loop, loop_wifi, loop_mqtt, halted
  now,                 \* millis(): ms since this boot
  wall,                \* wall clock, ms since midnight of day 0
  timeAvailable,       \* getLocalTime() succeeds
  wifiUp,              \* the access point is in reach: after WiFi.begin(),
                       \* WiFi.status() == WL_CONNECTED exactly when it is
  brokerUp,            \* the broker accepts a connection
  mqttConnected,       \* mqttClient.connected()
  resetReason,         \* esp_reset_reason() of this boot
  errorlog,            \* Preferences "errorlog"/"lastError": [has, val]
  otaInProgress,
  rebootDoneToday,
  lastMeasurementTime,
  lastSendTime,
  lastSentDistanceMM,
  lastSentTrend,
  lastMQTTReconnect,
  historyValues,
  historyTimestamps,
  historyIndex,
  historyCount,
  out,                 \* the publishes issued by the last step, in order
  logged,              \* the messages given to logError by the last step
  last,                \* what the last step did (observation only)
  steps,               \* how often the clocks advanced
  faults,              \* how many disturbances the environment caused
  boots,               \* how many boots so far
  restartDay,          \* the day of the last scheduled restart, -1 if none
  restartsThatDay      \* the scheduled restarts performed on restartDay

vars == <<sketch, pc, now, wall, timeAvailable, wifiUp, brokerUp, mqttConnected,
          resetReason, errorlog, otaInProgress, rebootDoneToday,
          lastMeasurementTime, lastSendTime, lastSentDistanceMM, lastSentTrend,
          lastMQTTReconnect, historyValues, historyTimestamps, historyIndex,
          historyCount, out, logged, last, steps, faults, boots, restartDay,
          restartsThatDay>>

\* -------------------------------------------------------------------------
\* Strings
\* -------------------------------------------------------------------------
\* the messages are spelled in ASCII: ae, ue for the umlauts and - for the dash
SEP == " -- "
NO_ERROR_STORED == <<"Kein Fehler gespeichert">>
MSG_OTA_START == <<"OTA Update gestartet - stoppe Messungen.">>
MSG_OTA_OK == <<"OTA erfolgreich - Neustart">>
MSG_OTA_FAILED == <<"OTA fehlgeschlagen">>
MSG_DAILY_REBOOT == <<"Geplanter taeglicher Neustart">>
MSG_SKIPPED == <<"Messung uebersprungen - MQTT offline">>
EPOCH_TIMESTAMP == <<"1970-01-01T00:00:00">>

TOPIC_STATUS == "wasserstand/status"
TOPIC_PERCENT == "wasserstand/prozent"
TOPIC_ABSOLUTE == "wasserstand/absolut"
TOPIC_LOG == "wasserstand/log"
TOPIC_FILLING == "wasserstand/fuellt"
TOPIC_STATE == "wasserstand/matchCoolingState"
TOPIC_TARGET == "wasserstand/getTargetTemperature"
TOPIC_LAST_ERROR == "wasserstand/lastError"

TelemetryTopics == {TOPIC_PERCENT, TOPIC_ABSOLUTE, TOPIC_LOG, TOPIC_FILLING,
                    TOPIC_STATE, TOPIC_TARGET}

Pad2(n) == IF n < 10 THEN "0" \o ToString(n) ELSE ToString(n)

\* String(float): two decimals
FloatString(d) ==
  LET cents == (d + (UNITS_PER_MM \div 200)) \div (UNITS_PER_MM \div 100)
  IN <<ToString(cents \div 100) \o "." \o Pad2(cents % 100)>>

\* -------------------------------------------------------------------------
\* Wall clock
\* -------------------------------------------------------------------------
MS_PER_DAY == 24 * 60 * MS_PER_MINUTE
MS_PER_HOUR == 60 * MS_PER_MINUTE

tm_day(w) == w \div MS_PER_DAY
tm_hour(w) == (w % MS_PER_DAY) \div MS_PER_HOUR
tm_min(w) == (w % MS_PER_HOUR) \div MS_PER_MINUTE
tm_sec(w) == (w % MS_PER_MINUTE) \div 1000

getTimestamp(s) ==
  IF ~s.timeAvailable THEN EPOCH_TIMESTAMP
  ELSE <<"2025-01-" \o Pad2(1 + tm_day(s.wall)) \o "T" \o Pad2(tm_hour(s.wall))
         \o ":" \o Pad2(tm_min(s.wall)) \o ":" \o Pad2(tm_sec(s.wall))>>

\* index of the first token SEP of msg, 0 if there is none
RECURSIVE IndexOfSep(_, _)
IndexOfSep(msg, i) ==
  IF i > Len(msg) THEN 0
  ELSE IF msg[i] = SEP THEN i ELSE IndexOfSep(msg, i + 1)

stripTimestamp(msg) ==
  LET pos == IndexOfSep(msg, 1)
  IN IF pos > 0 THEN SubSeq(msg, pos + 1, Len(msg)) ELSE msg

ResetReasons == {"ESP_RST_POWERON", "ESP_RST_EXT", "ESP_RST_SW", "ESP_RST_PANIC",
                 "ESP_RST_INT_WDT", "ESP_RST_TASK_WDT", "ESP_RST_WDT",
                 "ESP_RST_DEEPSLEEP", "ESP_RST_BROWNOUT", "ESP_RST_SDIO",
                 "ESP_RST_UNKNOWN"}

getResetReasonString(r) ==
  CASE r = "ESP_RST_POWERON" -> "Power-On Reset"
    [] r = "ESP_RST_EXT" -> "Externer Reset"
    [] r = "ESP_RST_SW" -> "Software Reset"
    [] r = "ESP_RST_PANIC" -> "Guru Meditation"
    [] r = "ESP_RST_INT_WDT" -> "Interrupt Watchdog"
    [] r = "ESP_RST_TASK_WDT" -> "Task Watchdog"
    [] r = "ESP_RST_WDT" -> "Anderer Watchdog"
    [] r = "ESP_RST_DEEPSLEEP" -> "Wake from Deep-Sleep"
    [] r = "ESP_RST_BROWNOUT" -> "Brownout"
    [] r = "ESP_RST_SDIO" -> "SDIO Reset"
    [] OTHER -> "Unbekannter Reset"

ResetMessage(r) == <<"Reset-Grund: " \o getResetReasonString(r)>>

\* -------------------------------------------------------------------------
\* The state as one record s, the form the operations below work on: every
\* operation maps the record before a call to the record after it.
\*   s.restarted is "" until ESP.restart() is called, then "daily" or "ota":
\*   ESP.restart() does not return, nothing after it runs.
\* -------------------------------------------------------------------------
NoMeasurement ==
  [measured |-> FALSE, mOta |-> FALSE, mForce |-> FALSE, mDuration |-> 0,
   mDist |-> 0, mPlausible |-> FALSE, mTrend |-> "", mDecided |-> FALSE,
   mPercent |-> 0, mOut |-> <<>>, mLogged |-> <<>>]

\* the observation of a step that ran no firmware code
NoStep ==
  [op |-> "env", serviced |-> FALSE, attempts |-> 0, mqttLoops |-> 0,
   hadEntry |-> FALSE, prevErr |-> <<>>, republished |-> FALSE,
   skipped |-> FALSE] @@ NoMeasurement

St ==
  [sketch |-> sketch, now |-> now, wall |-> wall, timeAvailable |-> timeAvailable,
   wifiUp |-> wifiUp, brokerUp |-> brokerUp, mqttConnected |-> mqttConnected,
   resetReason |-> resetReason, errorlog |-> errorlog,
   otaInProgress |-> otaInProgress, rebootDoneToday |-> rebootDoneToday,
   lastMeasurementTime |-> lastMeasurementTime, lastSendTime |-> lastSendTime,
   lastSentDistanceMM |-> lastSentDistanceMM, lastSentTrend |-> lastSentTrend,
   lastMQTTReconnect |-> lastMQTTReconnect, historyValues |-> historyValues,
   historyTimestamps |-> historyTimestamps, historyIndex |-> historyIndex,
   historyCount |-> historyCount,
   out |-> <<>>, logged |-> <<>>, last |-> NoStep, restarted |-> "", pc |-> pc]

\* -------------------------------------------------------------------------
\* Trend estimator
\* -------------------------------------------------------------------------
\* a ring whose index stops at the last slot
addToHistoryStuck(s, value) ==
  [s EXCEPT !.historyValues[s.historyIndex] = value,
            !.historyTimestamps[s.historyIndex] = s.now,
            !.historyIndex = IF s.historyIndex + 1 < HISTORY_SIZE
                             THEN s.historyIndex + 1 ELSE s.historyIndex,
            !.historyCount = IF s.historyCount < HISTORY_SIZE
                             THEN s.historyCount + 1 ELSE s.historyCount]

addToHistory(s, value) ==
  [s EXCEPT !.historyValues[s.historyIndex] = value,
            !.historyTimestamps[s.historyIndex] = s.now,
            !.historyIndex = (s.historyIndex + 1) % HISTORY_SIZE,
            !.historyCount = IF s.historyCount < HISTORY_SIZE
                             THEN s.historyCount + 1 ELSE s.historyCount]

\* x of sample i: (historyTimestamps[i] - historyTimestamps[0]), unsigned, in ms
TrendX(s, i) == U32Sub(s.historyTimestamps[i], s.historyTimestamps[0])

\* the term that pass i of the loop of calculateTrendSlope adds to sumX, sumY,
\* sumXY or sumXX, x in ms and y in 1/100000 mm
TrendTerm(s, i, sum) ==
  CASE sum = "sumX" -> TrendX(s, i)
    [] sum = "sumY" -> BigOf(s.historyValues[i])
    [] sum = "sumXY" -> BigMul(TrendX(s, i), BigOf(s.historyValues[i]))
    [] sum = "sumXX" -> BigMul(TrendX(s, i), TrendX(s, i))

\* a term is below 2^32 * 2^32
TermDigits == 2 * Len(Big2Pow32)

\* the value of sumX, sumY, sumXY or sumXX after the loop of calculateTrendSlope:
\* the terms of the passes 0..historyCount-1 summed by place, then carried
TrendSum(s, sum) ==
  BigNormal([d \in 1..TermDigits |->
               Sum([i \in 1..s.historyCount |-> BigDigit(TrendTerm(s, i - 1, sum), d)])])

\* the four sums of the loop of calculateTrendSlope
TrendSums(s) ==
  [sumX |-> TrendSum(s, "sumX"), sumY |-> TrendSum(s, "sumY"),
   sumXY |-> TrendSum(s, "sumXY"), sumXX |-> TrendSum(s, "sumXX")]

ZeroSlope == [neg |-> FALSE, num |-> <<>>, den |-> <<1>>]

\* (nXY - xy) / (nXX - sqX), scaled to mm/min, as the fraction
\* (neg ? -1 : 1) * num / den with den > 0; 0 when the denominator is 0
SlopeFraction(nXX, sqX, nXY, xy) ==
  IF nXX = sqX THEN ZeroSlope
  ELSE [neg |-> BigLess(nXY, xy),
        num |-> BigMul(BigOf(MS_PER_MINUTE),
                       IF BigLess(nXY, xy) THEN BigSub(xy, nXY) ELSE BigSub(nXY, xy)),
        den |-> BigMul(BigOf(UNITS_PER_MM), BigSub(nXX, sqX))]

\* a slope that leaves out the product of the sums
SlopeWithoutMeans(n, sums) ==
  SlopeFraction(BigMul(n, sums.sumXX), BigMul(sums.sumX, sums.sumX),
                BigMul(n, sums.sumXY), <<>>)

SlopeOfSums(n, sums) ==
  SlopeFraction(BigMul(n, sums.sumXX), BigMul(sums.sumX, sums.sumX),
                BigMul(n, sums.sumXY), BigMul(sums.sumX, sums.sumY))

\* the regression without its minimum of samples
calculateTrendSlopeAnyCount(s) ==
  SlopeOfSums(BigOf(s.historyCount), TrendSums(s))

calculateTrendSlope(s) ==
  IF s.historyCount < MIN_TREND_SAMPLES THEN ZeroSlope
  ELSE SlopeOfSums(BigOf(s.historyCount), TrendSums(s))

\* |slope| > 0.1
SlopeBeyondDeadband(slope) == BigLess(slope.den, BigMul(BigOf(10), slope.num))

TrendLabelOf(slope) ==
  IF slope.neg /\ SlopeBeyondDeadband(slope) THEN "einlaufend"
  ELSE IF ~slope.neg /\ SlopeBeyondDeadband(slope) THEN "abnehmend"
  ELSE "stabil"

getTrendLabel(s) == TrendLabelOf(calculateTrendSlope(s))

\* -------------------------------------------------------------------------
\* Fault log and publishing
\* -------------------------------------------------------------------------
\* a publish that does not ask whether the session exists
publishMQTTUnchecked(s, topic, payload) ==
  [s EXCEPT !.out = Append(@, [topic |-> topic, payload |-> payload,
                               retained |-> TRUE])]

publishMQTT(s, topic, payload) ==
  IF s.mqttConnected
  THEN [s EXCEPT !.out = Append(@, [topic |-> topic, payload |-> payload,
                                    retained |-> TRUE])]
  ELSE s

\* a fault log that stores the entry and leaves the bus alone
logErrorUnpublished(s, err) ==
  [s EXCEPT !.errorlog = [has |-> TRUE, val |-> getTimestamp(s) \o <<SEP>> \o err],
            !.logged = Append(@, err)]

\* a fault log that keeps the entry it already holds
storeErrorKeepFirst(s, err, payload) ==
  IF s.errorlog.has
  THEN [s EXCEPT !.logged = Append(@, err)]
  ELSE [s EXCEPT !.errorlog = [has |-> TRUE, val |-> payload],
                 !.logged = Append(@, err)]

\* preferences.putString("lastError", payload), then the echo on the bus
storeError(s, err, payload) ==
  publishMQTT([s EXCEPT !.errorlog = [has |-> TRUE, val |-> payload],
                        !.logged = Append(@, err)],
              TOPIC_LAST_ERROR, payload)

logError(s, err) == storeError(s, err, getTimestamp(s) \o <<SEP>> \o err)

readLastError(s) == IF s.errorlog.has THEN s.errorlog.val ELSE NO_ERROR_STORED

\* -------------------------------------------------------------------------
\* Measurement pipeline
\* -------------------------------------------------------------------------
Abs(x) == IF x < 0 THEN -x ELSE x

\* the decision without its trend condition
shouldSendWithoutTrend(s, currentMM, trend) ==
  \/ s.now - s.lastSendTime >= SEND_INTERVAL_MS
  \/ Abs(currentMM - s.lastSentDistanceMM) >= MIN_CHANGE_MM * UNITS_PER_MM

\* the decision without its interval condition
shouldSendWithoutHeartbeat(s, currentMM, trend) ==
  \/ Abs(currentMM - s.lastSentDistanceMM) >= MIN_CHANGE_MM * UNITS_PER_MM
  \/ trend # s.lastSentTrend

shouldSendMeasurement(s, currentMM, trend) ==
  LET intervalExceeded == s.now - s.lastSendTime >= SEND_INTERVAL_MS
      changeExceeded == Abs(currentMM - s.lastSentDistanceMM)
                          >= MIN_CHANGE_MM * UNITS_PER_MM
      trendChanged == trend # s.lastSentTrend
  IN intervalExceeded \/ changeExceeded \/ trendChanged

\* the percentage as a multiple of 1/PercentUnit percent, constrained to 0..100
PercentUnit == ((DIST_EMPTY_MM - DIST_FULL_MM) * UNITS_PER_MM) \div 100

\* the percentage without constrain()
PercentageUnconstrained(distanceMM) ==
  DIST_EMPTY_MM * UNITS_PER_MM - distanceMM

Percentage(distanceMM) ==
  LET raw == DIST_EMPTY_MM * UNITS_PER_MM - distanceMM
  IN IF raw < 0 THEN 0
     ELSE IF raw > 100 * PercentUnit THEN 100 * PercentUnit ELSE raw

\* String(percentage, 1)
PercentString(p) ==
  LET tenths == (p * 10 + PercentUnit \div 2) \div PercentUnit
  IN <<ToString(tenths \div 10) \o "." \o ToString(tenths % 10)>>

\* (int)round(distanceMM)
RoundMM(distanceMM) == (distanceMM + UNITS_PER_MM \div 2) \div UNITS_PER_MM

\* the JSON record of the log topic
LogRecord(s, distanceMM, percentage, trend) ==
  <<"{timestamp:">> \o getTimestamp(s) \o <<",prozent:">>
  \o PercentString(percentage)
  \o <<",absolut:", ToString(RoundMM(distanceMM)), ",trend:", trend, "}">>

\* lines 308-315: the target hint of a rising or falling level
publishTarget(s, trend) ==
  IF trend = "einlaufend" THEN publishMQTT(s, TOPIC_TARGET, <<"100">>)
  ELSE IF trend = "abnehmend" THEN publishMQTT(s, TOPIC_TARGET, <<"0">>)
  ELSE s

CoolingState(trend) ==
  IF trend = "einlaufend" THEN "HEAT"
  ELSE IF trend = "abnehmend" THEN "COOL" ELSE "OFF"

\* the publishes of a taken publish decision (lines 296-318)
sendMeasurement(s, distanceMM, percentage, trend) ==
  publishMQTT(
    publishMQTT(
      publishMQTT(
        publishTarget(
          publishMQTT(
            publishMQTT([s EXCEPT !.lastSentDistanceMM = distanceMM,
                                  !.lastSendTime = s.now,
                                  !.lastSentTrend = trend,
                                  !.last.mDecided = TRUE],
                        TOPIC_PERCENT, <<ToString(percentage \div PercentUnit)>>),
            TOPIC_ABSOLUTE, <<ToString(RoundMM(distanceMM))>>),
          trend),
        TOPIC_LOG, LogRecord(s, distanceMM, percentage, trend)),
      TOPIC_FILLING, IF trend = "einlaufend" THEN <<"true">> ELSE <<"false">>),
    TOPIC_STATE, <<CoolingState(trend)>>)

Plausible(distanceMM) ==
  ~(distanceMM <= MIN_PLAUSIBLE_MM * UNITS_PER_MM
    \/ distanceMM > MAX_PLAUSIBLE_MM * UNITS_PER_MM)

\* the observation of one call: what it published and logged
MeasurementObserved(before, after) ==
  [after EXCEPT !.last.mOut = SubSeq(after.out, Len(before.out) + 1, Len(after.out)),
                !.last.mLogged = SubSeq(after.logged, Len(before.logged) + 1,
                                        Len(after.logged))]

MeasurementEntered(s, forceSend, duration) ==
  [s EXCEPT !.last.measured = TRUE,
            !.last.mOta = s.otaInProgress,
            !.last.mForce = forceSend,
            !.last.mDuration = duration,
            !.last.mDist = duration * US_TO_MM_FACTOR,
            !.last.mPlausible = Plausible(duration * US_TO_MM_FACTOR)]

MeasurementLabelled(s, percentage, trend) ==
  [s EXCEPT !.last.mTrend = trend, !.last.mPercent = percentage]

\* lines 295-319: the publish decision
decideSend(s, forceSend, distanceMM, percentage, trend) ==
  IF forceSend \/ shouldSendMeasurement(s, distanceMM, trend)
  THEN sendMeasurement(MeasurementLabelled(s, percentage, trend),
                       distanceMM, percentage, trend)
  ELSE MeasurementLabelled(s, percentage, trend)

\* lines 289-293: s is the state after addToHistory
measurePlausible(s, forceSend, distanceMM) ==
  decideSend(s, forceSend, distanceMM, Percentage(distanceMM), getTrendLabel(s))

\* the cycle without its plausibility gate
measureDistanceUngated(s, forceSend, distanceMM) ==
  measurePlausible(addToHistory(s, distanceMM), forceSend, distanceMM)

\* lines 284-319
measureDistance(s, forceSend, distanceMM) ==
  IF ~Plausible(distanceMM)
  THEN logError(s, <<"Sensorfehler: ">> \o FloatString(distanceMM) \o <<" mm">>)
  ELSE measurePlausible(addToHistory(s, distanceMM), forceSend, distanceMM)

\* duration is the result of sonar.ping_median(5), in microseconds
performMeasurement(s, forceSend, duration) ==
  MeasurementObserved(s, measureDistance(MeasurementEntered(s, forceSend, duration),
                                         forceSend, duration * US_TO_MM_FACTOR))

\* -------------------------------------------------------------------------
\* Failsafe scheduler
\* -------------------------------------------------------------------------
\* the scheduler without its check of the wall clock's availability
checkDailyRebootAnyClock(s) ==
  IF tm_hour(s.wall) = REBOOT_HOUR /\ tm_min(s.wall) = REBOOT_MINUTE
     /\ ~s.rebootDoneToday
  THEN [logError(s, MSG_DAILY_REBOOT) EXCEPT !.rebootDoneToday = TRUE,
                                             !.restarted = "daily"]
  ELSE IF tm_hour(s.wall) # REBOOT_HOUR
       THEN [s EXCEPT !.rebootDoneToday = FALSE]
       ELSE s

checkDailyReboot(s) ==
  IF ~s.timeAvailable THEN s
  ELSE IF tm_hour(s.wall) = REBOOT_HOUR /\ tm_min(s.wall) = REBOOT_MINUTE
          /\ ~s.rebootDoneToday
       THEN [logError(s, MSG_DAILY_REBOOT) EXCEPT !.rebootDoneToday = TRUE,
                                                  !.restarted = "daily"]
       ELSE IF tm_hour(s.wall) # REBOOT_HOUR
            THEN [s EXCEPT !.rebootDoneToday = FALSE]
            ELSE s

\* -------------------------------------------------------------------------
\* Connectivity supervisor
\* -------------------------------------------------------------------------
Min(a, b) == IF a < b THEN a ELSE b

\* a connect that announces nothing
announceNothing(s) == s

announceOnline(s) ==
  IF s.mqttConnected
  THEN [s EXCEPT !.out = Append(@, [topic |-> TOPIC_STATUS, payload |-> <<"online">>,
                                    retained |-> TRUE])]
  ELSE s

\* mqttClient.connect(...) and, when it succeeds, the retained "online" marker:
\* one pass of the body of connectMQTT's loop, and the attempt of ensureMQTT
connectOnce(s) ==
  announceOnline([s EXCEPT !.mqttConnected = s.wifiUp /\ s.brokerUp,
                           !.last.attempts = Min(@ + 1, AttemptCap)])

\* mqttClient.loop()
mqttLoop(s) == [s EXCEPT !.last.mqttLoops = @ + 1]

stayIfDisconnected(s, waitPc) ==
  IF s.mqttConnected THEN s ELSE [s EXCEPT !.pc = waitPc]

\* sketch 1: one attempt of connectMQTT(); while the client is not connected the
\* caller stays inside connectMQTT's while loop (pc = waitPc)
connectMQTT(s, waitPc) == stayIfDisconnected(connectOnce(s), waitPc)

\* sketch 1, up to the return of connectMQTT()
ensureMQTTConnected(s) ==
  IF ~s.mqttConnected /\ s.now - s.lastMQTTReconnect > MQTT_RETRY_MS
  THEN connectMQTT([s EXCEPT !.lastMQTTReconnect = s.now], "loop_mqtt")
  ELSE s

\* a supervisor that has given up
ensureMQTTGivenUp(s) == s

\* sketch 2, up to its closing mqttClient.loop()
ensureMQTT(s) ==
  IF ~s.mqttConnected
  THEN IF s.now - s.lastMQTTReconnect > MQTT_RETRY_MS
       THEN connectOnce([s EXCEPT !.lastMQTTReconnect = s.now])
       ELSE s
  ELSE s

\* -------------------------------------------------------------------------
\* setup() and loop()
\* -------------------------------------------------------------------------
OtaEvents == {"none", "otaStart", "otaEndOk", "otaEndFail"}

\* an update handler that restarts after a failed update as well
handleClientRestarting(s, event) ==
  CASE event = "otaStart" ->
         logError([s EXCEPT !.last.serviced = TRUE, !.otaInProgress = TRUE],
                  MSG_OTA_START)
    [] event = "otaEndOk" ->
         [logError([s EXCEPT !.last.serviced = TRUE, !.otaInProgress = FALSE],
                   MSG_OTA_OK)
            EXCEPT !.restarted = "ota"]
    [] event = "otaEndFail" ->
         [logError([s EXCEPT !.last.serviced = TRUE, !.otaInProgress = FALSE],
                   MSG_OTA_FAILED)
            EXCEPT !.restarted = "ota"]
    [] OTHER -> [s EXCEPT !.last.serviced = TRUE]

\* otaServer.handleClient(): the request served may fire an ElegantOTA callback
handleClient(s, event) ==
  CASE event = "otaStart" ->
         logError([s EXCEPT !.last.serviced = TRUE, !.otaInProgress = TRUE],
                  MSG_OTA_START)
    [] event = "otaEndOk" ->
         [logError([s EXCEPT !.last.serviced = TRUE, !.otaInProgress = FALSE],
                   MSG_OTA_OK)
            EXCEPT !.restarted = "ota"]
    [] event = "otaEndFail" ->
         logError([s EXCEPT !.last.serviced = TRUE, !.otaInProgress = FALSE],
                  MSG_OTA_FAILED)
    [] OTHER -> [s EXCEPT !.last.serviced = TRUE]

\* lines 467-471
measureOrSkip(s, duration) ==
  IF s.mqttConnected
  THEN performMeasurement(s, FALSE, duration)
  ELSE [logError(s, MSG_SKIPPED) EXCEPT !.last.skipped = TRUE]

\* a due measurement whose skipped cycle leaves lastMeasurementTime alone
measureIfDueKeepingTime(s, duration) ==
  IF s.now - s.lastMeasurementTime >= MEASUREMENT_INTERVAL_MS
  THEN IF s.mqttConnected
       THEN measureOrSkip([s EXCEPT !.lastMeasurementTime = s.now], duration)
       ELSE measureOrSkip(s, duration)
  ELSE s

\* lines 465-472
measureIfDue(s, duration) ==
  IF s.now - s.lastMeasurementTime >= MEASUREMENT_INTERVAL_MS
  THEN measureOrSkip([s EXCEPT !.lastMeasurementTime = s.now], duration)
  ELSE s

\* loop() from the measurement check on (lines 465-474, 950-961)
loopFromMeasurement(s, duration) ==
  checkDailyReboot(measureIfDue(IF s.sketch = 2 THEN mqttLoop(s) ELSE s, duration))

\* loop() after the attempt of the bus-session ensure step
loopAfterEnsure(s, duration) ==
  IF s.pc = "loop_mqtt" THEN s ELSE loopFromMeasurement(mqttLoop(s), duration)

\* loop() from the bus-session ensure step on
loopFromMQTT(s, duration) ==
  loopAfterEnsure(IF s.sketch = 1 THEN ensureMQTTConnected(s) ELSE ensureMQTT(s),
                  duration)

\* ensureWifiConnected() / ensureWifi(): WiFi.begin() and the wait for the link
ensureWifiConnected(s, waitPc) ==
  IF ~s.wifiUp THEN [s EXCEPT !.pc = waitPc] ELSE s

loopAfterWifi(s, duration) ==
  IF s.pc = "loop_wifi" THEN s ELSE loopFromMQTT(s, duration)

\* loop() without the otaInProgress gate
loopAfterClientUngated(s, duration) ==
  IF s.restarted # "" THEN s
  ELSE loopAfterWifi(ensureWifiConnected(s, "loop_wifi"), duration)

\* loop() with the daily-restart check inside the otaInProgress gate
loopAfterClientCheckGated(s, duration) ==
  IF s.restarted # "" THEN s
  ELSE IF ~s.otaInProgress
       THEN loopAfterWifi(ensureWifiConnected(s, "loop_wifi"), duration)
       ELSE s

\* loop() after otaServer.handleClient()
loopAfterClient(s, duration) ==
  IF s.restarted # "" THEN s
  ELSE IF ~s.otaInProgress
       THEN loopAfterWifi(ensureWifiConnected(s, "loop_wifi"), duration)
       ELSE checkDailyReboot(s)

\* one pass of loop()
loop(s, event, duration) ==
  loopAfterClient(handleClient([s EXCEPT !.last.op = "loop"], event), duration)

\* the boot-time check without the update-start message on its list
announceLastErrorLax(s, lastErr, lastErrCore, resetMsgCore) ==
  IF lastErr # NO_ERROR_STORED
     /\ lastErrCore # resetMsgCore
     /\ lastErrCore # MSG_OTA_OK
     /\ lastErrCore # MSG_OTA_FAILED
  THEN [publishMQTT(s, TOPIC_LAST_ERROR, lastErr)
          EXCEPT !.last.republished = s.mqttConnected]
  ELSE s

\* lines 439-445: a persisted entry that is not on the suppression list is published
announceLastError(s, lastErr, lastErrCore, resetMsgCore) ==
  IF lastErr # NO_ERROR_STORED
     /\ lastErrCore # resetMsgCore
     /\ lastErrCore # MSG_OTA_OK
     /\ lastErrCore # MSG_OTA_START
     /\ lastErrCore # MSG_OTA_FAILED
  THEN [publishMQTT(s, TOPIC_LAST_ERROR, lastErr)
          EXCEPT !.last.republished = s.mqttConnected]
  ELSE s

\* lines 447-449
clearLastError(s) == [s EXCEPT !.errorlog = [has |-> FALSE, val |-> <<>>]]

\* lines 455-456
finishSetup(s) == [s EXCEPT !.lastMeasurementTime = s.now, !.pc = "loop"]

\* setup() from the return of connectMQTT() on (lines 415-455)
setupAfterConnect(s, duration) ==
  finishSetup(
    performMeasurement(
      logError(
        clearLastError(
          announceLastError([s EXCEPT !.last.hadEntry = s.errorlog.has,
                                      !.last.prevErr = readLastError(s)],
                            readLastError(s), stripTimestamp(readLastError(s)),
                            ResetMessage(s.resetReason))),
        ResetMessage(s.resetReason)),
      TRUE, duration))

\* one pass of connectMQTT()'s loop in setup() and, once connected, the rest
setupFromConnect(s, duration) ==
  IF s.mqttConnected THEN setupAfterConnect(s, duration) ELSE s

\* sketch 1: after one more attempt of connectMQTT() inside loop()
loopFromReconnect(s, duration) ==
  IF s.mqttConnected THEN loopFromMeasurement(mqttLoop(s), duration) ELSE s

\* -------------------------------------------------------------------------
\* Inputs
\* -------------------------------------------------------------------------
\* results of sonar.ping_median(5) in microseconds: 149.96 mm, 499.97 mm,
\* 504.02 mm, 506.04 mm, 2007.29 mm
Durations == {889, 2964, 2988, 3000, 11900}

\* the sensor is read only by a pass of loop() whose measurement is due
SensorInputs ==
  IF now - lastMeasurementTime >= MEASUREMENT_INTERVAL_MS THEN Durations ELSE {0}

\* the resets the firmware does not perform itself
HardResetReasons == {"ESP_RST_POWERON", "ESP_RST_EXT"}

\* the wall clock at the first power-on: 01:59:30
StartWalls == {MS_PER_HOUR + 59 * MS_PER_MINUTE + 30 * 1000}

\* -------------------------------------------------------------------------
\* Initial state and state changes
\* -------------------------------------------------------------------------
\* the globals as the C++ runtime initialises them at every boot (lines 64-90)
RamInit ==
  /\ otaInProgress' = FALSE
  /\ rebootDoneToday' = FALSE
  /\ lastMeasurementTime' = 0
  /\ lastSendTime' = 0
  /\ lastSentDistanceMM' = 0
  /\ lastSentTrend' = ""
  /\ lastMQTTReconnect' = 0
  /\ historyValues' = [i \in 0..(HISTORY_SIZE - 1) |-> 0]
  /\ historyTimestamps' = [i \in 0..(HISTORY_SIZE - 1) |-> 0]
  /\ historyIndex' = 0
  /\ historyCount' = 0

Init ==
  /\ sketch \in {1, 2}
  /\ pc = "setup_wifi"
  /\ now = 0
  /\ wall \in StartWalls
  /\ timeAvailable = FALSE
  /\ wifiUp = TRUE
  /\ brokerUp = TRUE
  /\ mqttConnected = FALSE
  /\ resetReason = "ESP_RST_POWERON"
  /\ errorlog = [has |-> FALSE, val |-> <<>>]
  /\ otaInProgress = FALSE
  /\ rebootDoneToday = FALSE
  /\ lastMeasurementTime = 0
  /\ lastSendTime = 0
  /\ lastSentDistanceMM = 0
  /\ lastSentTrend = ""
  /\ lastMQTTReconnect = 0
  /\ historyValues = [i \in 0..(HISTORY_SIZE - 1) |-> 0]
  /\ historyTimestamps = [i \in 0..(HISTORY_SIZE - 1) |-> 0]
  /\ historyIndex = 0
  /\ historyCount = 0
  /\ out = <<>>
  /\ logged = <<>>
  /\ last = NoStep
  /\ steps = 0
  /\ faults = 0
  /\ boots = 1
  /\ restartDay = -1
  /\ restartsThatDay = 0

\* the state after a step of the firmware that ended in record r; a call of
\* ESP.restart() boots the firmware again (reset reason ESP_RST_SW, the RTC keeps
\* the wall clock), until the run holds MaxBoots boots
Commit(r) ==
  /\ errorlog' = r.errorlog
  /\ out' = r.out
  /\ logged' = r.logged
  /\ last' = r.last
  /\ UNCHANGED <<sketch, wall, timeAvailable, wifiUp, brokerUp, steps, faults>>
  /\ IF r.restarted # ""
     THEN /\ RamInit
          /\ pc' = IF boots < MaxBoots THEN "setup_wifi" ELSE "halted"
          /\ boots' = boots + 1
          /\ now' = 0
          /\ mqttConnected' = FALSE
          /\ resetReason' = "ESP_RST_SW"
          /\ IF r.restarted = "daily"
             THEN /\ restartDay' = tm_day(wall)
                  /\ restartsThatDay' = IF restartDay = tm_day(wall)
                                        THEN restartsThatDay + 1 ELSE 1
             ELSE UNCHANGED <<restartDay, restartsThatDay>>
     ELSE /\ pc' = r.pc
          /\ mqttConnected' = r.mqttConnected
          /\ otaInProgress' = r.otaInProgress
          /\ rebootDoneToday' = r.rebootDoneToday
          /\ lastMeasurementTime' = r.lastMeasurementTime
          /\ lastSendTime' = r.lastSendTime
          /\ lastSentDistanceMM' = r.lastSentDistanceMM
          /\ lastSentTrend' = r.lastSentTrend
          /\ lastMQTTReconnect' = r.lastMQTTReconnect
          /\ historyValues' = r.historyValues
          /\ historyTimestamps' = r.historyTimestamps
          /\ historyIndex' = r.historyIndex
          /\ historyCount' = r.historyCount
          /\ UNCHANGED <<now, resetReason, boots, restartDay, restartsThatDay>>

\* a step of the environment: the firmware's state stays, the observation of the
\* last firmware step is dropped
Firmware == <<pc, errorlog, otaInProgress, rebootDoneToday, lastMeasurementTime,
              lastSendTime, lastSentDistanceMM, lastSentTrend, lastMQTTReconnect,
              historyValues, historyTimestamps, historyIndex, historyCount,
              resetReason, boots, restartDay, restartsThatDay, sketch>>

Unobserved == out' = <<>> /\ logged' = <<>> /\ last' = NoStep

\* --- firmware steps ------------------------------------------------------

\* setup(): Serial.begin, delay(2000), the configuration, ensureWifiConnected()
SetupWifi ==
  /\ pc = "setup_wifi"
  /\ now >= SETUP_DELAY_MS
  /\ wifiUp
  /\ Commit([St EXCEPT !.pc = "setup_mqtt", !.last.op = "setup_wifi"])

\* setup(): one pass of connectMQTT()'s loop and, once connected, the rest of
\* setup(), with the sensor's reading drawn from readings
SetupMQTTReading(readings) ==
  /\ pc = "setup_mqtt"
  /\ \E duration \in readings :
       Commit(setupFromConnect(connectMQTT([St EXCEPT !.last.op = "setup"],
                                           "setup_mqtt"), duration))

SetupMQTT == SetupMQTTReading(Durations)

\* one pass of loop()
LoopTick ==
  /\ pc = "loop"
  /\ \E event \in OtaEvents, duration \in SensorInputs :
       /\ event # "none" => wifiUp
       /\ event = "otaStart" => ~otaInProgress
       /\ event \in {"otaEndOk", "otaEndFail"} => otaInProgress
       /\ Commit(loop(St, event, duration))

\* loop() inside ensureWifiConnected(): the link is up again, the pass goes on
LoopWifiWait ==
  /\ pc = "loop_wifi"
  /\ wifiUp
  /\ \E duration \in SensorInputs :
       Commit(loopFromMQTT([St EXCEPT !.pc = "loop", !.last.op = "loop_wifi"],
                           duration))

\* sketch 1, loop() inside connectMQTT(): the next attempt of its while loop
LoopMQTTWait ==
  /\ pc = "loop_mqtt"
  /\ \E duration \in SensorInputs :
       \E r \in {loopFromReconnect(
                   connectMQTT([St EXCEPT !.pc = "loop", !.last.op = "loop_mqtt",
                                          !.last.attempts = last.attempts],
                               "loop_mqtt"), duration)} :
         Commit(r)

\* --- environment steps ---------------------------------------------------

\* the clocks advance by one step
Advance ==
  /\ steps < MaxSteps
  /\ pc # "halted"
  /\ now' = now + TimeStep
  /\ wall' = wall + TimeStep
  /\ steps' = steps + 1
  /\ Unobserved
  /\ UNCHANGED Firmware
  /\ UNCHANGED <<timeAvailable, wifiUp, brokerUp, mqttConnected, faults>>

WifiConnect ==
  /\ ~wifiUp
  /\ pc # "halted"
  /\ wifiUp' = TRUE
  /\ Unobserved
  /\ UNCHANGED Firmware
  /\ UNCHANGED <<now, wall, steps, faults, timeAvailable, brokerUp, mqttConnected>>

\* the link drops, and the bus session with it
WifiDrop ==
  /\ wifiUp
  /\ pc # "halted"
  /\ faults < MaxFaults
  /\ faults' = faults + 1
  /\ wifiUp' = FALSE
  /\ mqttConnected' = FALSE
  /\ Unobserved
  /\ UNCHANGED Firmware
  /\ UNCHANGED <<now, wall, steps, timeAvailable, brokerUp>>

BrokerStart ==
  /\ ~brokerUp
  /\ pc # "halted"
  /\ brokerUp' = TRUE
  /\ Unobserved
  /\ UNCHANGED Firmware
  /\ UNCHANGED <<now, wall, steps, faults, timeAvailable, wifiUp, mqttConnected>>

\* the broker goes away, and the bus session with it
BrokerStop ==
  /\ brokerUp
  /\ pc # "halted"
  /\ faults < MaxFaults
  /\ faults' = faults + 1
  /\ brokerUp' = FALSE
  /\ mqttConnected' = FALSE
  /\ Unobserved
  /\ UNCHANGED Firmware
  /\ UNCHANGED <<now, wall, steps, timeAvailable, wifiUp>>

\* configTime(): the wall clock is synchronised
NtpSync ==
  /\ ~timeAvailable
  /\ wifiUp
  /\ pc \in {"loop", "loop_wifi", "loop_mqtt"}
  /\ timeAvailable' = TRUE
  /\ Unobserved
  /\ UNCHANGED Firmware
  /\ UNCHANGED <<now, wall, steps, faults, wifiUp, brokerUp, mqttConnected>>

\* a reset the firmware did not ask for; a power-on reset loses the wall clock
HardReset ==
  /\ boots < MaxBoots
  /\ faults < MaxFaults
  /\ faults' = faults + 1
  /\ pc = "loop"
  /\ \E reason \in HardResetReasons :
       /\ resetReason' = reason
       /\ timeAvailable' = IF reason = "ESP_RST_POWERON" THEN FALSE ELSE timeAvailable
  /\ RamInit
  /\ pc' = "setup_wifi"
  /\ boots' = boots + 1
  /\ now' = 0
  /\ mqttConnected' = FALSE
  /\ Unobserved
  /\ UNCHANGED <<sketch, wall, steps, wifiUp, brokerUp, errorlog, restartDay,
                 restartsThatDay>>

Next ==
  \/ SetupWifi
  \/ SetupMQTT
  \/ LoopTick
  \/ LoopWifiWait
  \/ LoopMQTTWait
  \/ Advance
  \/ WifiConnect
  \/ WifiDrop
  \/ BrokerStart
  \/ BrokerStop
  \/ NtpSync
  \/ HardReset

Spec == Init /\ [][Next]_vars

\* -------------------------------------------------------------------------
\* Steady operation: no update, no reset, link and broker stay up, every reading
\* is plausible, and loop() runs in every step of the clock. The level moves
\* during the first LevelMoves measurements of loop() and rests afterwards.
\* -------------------------------------------------------------------------
\* 499.97 mm, 504.02 mm, 506.04 mm
SteadyDurations == {2964, 2988, 3000}

\* the reading of the latest entry of the trend window
LatestDuration ==
  historyValues[(historyIndex + HISTORY_SIZE - 1) % HISTORY_SIZE] \div US_TO_MM_FACTOR

SteadyInputs ==
  IF now - lastMeasurementTime < MEASUREMENT_INTERVAL_MS THEN {0}
  ELSE IF historyCount <= LevelMoves THEN SteadyDurations
  ELSE {LatestDuration}

SteadySetup == SetupMQTTReading(SteadyDurations)

\* one pass of loop() in every step of the clock
SteadyTick ==
  /\ pc = "loop"
  /\ last.op = "env"
  /\ \E duration \in SteadyInputs : Commit(loop(St, "none", duration))

SteadyAdvance ==
  /\ now < SteadyHorizon
  /\ \/ pc = "setup_wifi" /\ now < SETUP_DELAY_MS
     \/ pc = "loop" /\ last.op # "env"
  /\ now' = now + SteadyStep
  /\ wall' = wall + SteadyStep
  /\ Unobserved
  /\ UNCHANGED Firmware
  /\ UNCHANGED <<timeAvailable, wifiUp, brokerUp, mqttConnected, faults, steps>>

SteadyNext ==
  \/ SetupWifi
  \/ SteadySetup
  \/ SteadyTick
  \/ SteadyAdvance

SpecSteady == Init /\ [][SteadyNext]_vars

\* -------------------------------------------------------------------------
\* Reconnection: no update and no reset, the link stays up, the wall clock is
\* never synchronised, the broker comes and goes. loop() is called again and
\* again and the clock advances in steps of RetryStep up to RetryHorizon, short
\* of the first measurement of loop().
\* -------------------------------------------------------------------------
\* one pass of loop() with no request to the update server
RetryTick ==
  /\ pc = "loop"
  /\ \E duration \in SensorInputs :
       \E r \in {loop(St, "none", duration)} : Commit(r)

RetryAdvance ==
  /\ now < RetryHorizon
  /\ now' = now + RetryStep
  /\ wall' = wall + RetryStep
  /\ Unobserved
  /\ UNCHANGED Firmware
  /\ UNCHANGED <<timeAvailable, wifiUp, brokerUp, mqttConnected, faults, steps>>

RetryNext ==
  \/ SetupWifi
  \/ SteadySetup
  \/ RetryTick
  \/ LoopMQTTWait
  \/ RetryAdvance
  \/ BrokerStart
  \/ BrokerStop

\* the Arduino core calls loop() forever and delay() returns: a pass of loop()
\* that can be taken is taken, and the clock does not stop
SpecRetry ==
  /\ Init
  /\ [][RetryNext]_vars
  /\ WF_vars(RetryTick)
  /\ WF_vars(LoopMQTTWait)
  /\ WF_vars(RetryAdvance)

\* -------------------------------------------------------------------------
\* Trend window: no update, no reset, link and broker stay up, the wall clock is
\* never synchronised. loop() measures once in every step of the clock, TrendStep
\* apart, until the ring has wrapped; the echo time starts at one of TrendStarts
\* and changes by the same amount, one of TrendDrifts, from each reading to the
\* next.
\* -------------------------------------------------------------------------
\* 236.15 mm (full), 506.04 mm, 1400.04 mm (empty)
TrendStarts == {1400, 3000, 8300}

\* microseconds per reading: 0.16868 mm per TrendStep
TrendDrifts == {0 - 1, 0, 1}

\* the reading of the entry before the latest
PreviousDuration ==
  historyValues[(historyIndex + HISTORY_SIZE - 2) % HISTORY_SIZE] \div US_TO_MM_FACTOR

TrendInputs ==
  IF now - lastMeasurementTime < MEASUREMENT_INTERVAL_MS THEN {0}
  ELSE IF historyCount < 2 THEN {LatestDuration + drift : drift \in TrendDrifts}
  ELSE {LatestDuration + (LatestDuration - PreviousDuration)}

TrendSetup == SetupMQTTReading(TrendStarts)

\* one pass of loop() in every step of the clock
TrendTick ==
  /\ pc = "loop"
  /\ last.op = "env"
  /\ \E duration \in TrendInputs :
       \E r \in {loop(St, "none", duration)} : Commit(r)

TrendAdvance ==
  /\ now < TrendHorizon
  /\ \/ pc = "setup_wifi" /\ now < SETUP_DELAY_MS
     \/ pc = "loop" /\ last.op # "env"
  /\ now' = now + TrendStep
  /\ wall' = wall + TrendStep
  /\ Unobserved
  /\ UNCHANGED Firmware
  /\ UNCHANGED <<timeAvailable, wifiUp, brokerUp, mqttConnected, faults, steps>>

TrendNext ==
  \/ SetupWifi
  \/ TrendSetup
  \/ TrendTick
  \/ TrendAdvance

SpecTrend == Init /\ [][TrendNext]_vars

\* -------------------------------------------------------------------------
\* Properties
\* -------------------------------------------------------------------------
FirmwareHistory == <<historyValues, historyTimestamps, historyIndex, historyCount>>

\* the telemetry among a sequence of publishes
TelemetryOf(seq) == SelectSeq(seq, LAMBDA m : m.topic \in TelemetryTopics)

ImplausibleDurations == {d \in Durations : ~Plausible(d * US_TO_MM_FACTOR)}

SensorFault(duration) ==
  <<"Sensorfehler: ">> \o FloatString(duration * US_TO_MM_FACTOR) \o <<" mm">>

\* C1: over a run with restarts, checkDailyReboot performs at most one scheduled
\* restart per calendar day.
C1_OneRestartPerDay == restartsThatDay <= 1

\* C2: performMeasurement is never invoked while otaInProgress is true, and a step
\* that ends with an update in progress runs no measurement cycle, appends nothing
\* to the trend window and leaves lastMeasurementTime alone.
C2_NoMeasurementDuringUpdate ==
  [][/\ last'.measured => ~last'.mOta
     /\ otaInProgress' => /\ ~last'.measured
                          /\ UNCHANGED FirmwareHistory
                          /\ UNCHANGED lastMeasurementTime]_vars

\* a pass of loop() with an update in progress, the bus connected and a
\* measurement due
C2_Witness ==
  /\ last.op = "loop"
  /\ last.serviced
  /\ otaInProgress
  /\ mqttConnected
  /\ now - lastMeasurementTime >= MEASUREMENT_INTERVAL_MS

\* C3: in loop() the network-link ensure step returns in the same tick whether or
\* not the link comes up: no time passes while a pass of loop() stays inside it.
C3_LinkEnsureReturns ==
  [][(pc = "loop_wifi" /\ pc' = "loop_wifi") => now' = now]_vars

\* C4: in loop() one invocation of the bus-session ensure step makes at most one
\* connection attempt.
C4_OneAttemptPerEnsure == last.attempts <= 1

\* C5: a plausible measurement publishes telemetry if and only if forceSend is
\* true, or the time since the last publish is >= SEND_INTERVAL_MS, or the distance
\* differs from the last sent one by >= MIN_CHANGE_MM, or the trend label differs
\* from the last sent one.
C5_PublishDecision ==
  [][(last'.measured /\ last'.mPlausible /\ boots' = boots) =>
       ((TelemetryOf(last'.mOut) # <<>>) <=>
          \/ last'.mForce
          \/ now - lastSendTime >= SEND_INTERVAL_MS
          \/ Abs(last'.mDist - lastSentDistanceMM) >= MIN_CHANGE_MM * UNITS_PER_MM
          \/ last'.mTrend # lastSentTrend)]_vars

\* a measurement of loop() that moved by less than MIN_CHANGE_MM with the trend
\* unchanged, and published nothing
C5_Witness ==
  /\ last.measured
  /\ last.mPlausible
  /\ ~last.mForce
  /\ last.mOut = <<>>
  /\ last.mDist # lastSentDistanceMM
  /\ last.mTrend = lastSentTrend
  /\ now - lastSendTime < SEND_INTERVAL_MS

\* C6: while no update is in progress, the bus session stays connected and every
\* reading is plausible, the time since the last publish decision never exceeds
\* SEND_INTERVAL_MS plus one MEASUREMENT_INTERVAL_MS.
C6_Heartbeat ==
  (pc = "loop" /\ ~otaInProgress /\ mqttConnected) =>
    now - lastSendTime <= SEND_INTERVAL_MS + MEASUREMENT_INTERVAL_MS

\* a publish of loop() after HISTORY_SIZE equal readings with a stable trend
C6_Witness ==
  /\ last.op = "loop"
  /\ last.mDecided
  /\ TelemetryOf(last.mOut) # <<>>
  /\ last.mTrend = "stabil"
  /\ historyCount = HISTORY_SIZE
  /\ \A i \in 0..(HISTORY_SIZE - 1) : historyValues[i] = last.mDist

\* C7: performMeasurement with a distance <= 200 mm or > 2000 mm leaves the trend
\* window and the last-sent snapshot unchanged, for forceSend true and false.
C7_ImplausibleLeavesState ==
  \A duration \in ImplausibleDurations, forceSend \in BOOLEAN :
    LET r == performMeasurement(St, forceSend, duration)
    IN /\ r.historyValues = historyValues
       /\ r.historyTimestamps = historyTimestamps
       /\ r.historyIndex = historyIndex
       /\ r.historyCount = historyCount
       /\ r.lastSentDistanceMM = lastSentDistanceMM
       /\ r.lastSentTrend = lastSentTrend
       /\ r.lastSendTime = lastSendTime

\* an implausible reading taken after the window and the snapshot were filled
C7_Witness ==
  /\ last.measured
  /\ ~last.mPlausible
  /\ historyCount > 0
  /\ lastSendTime > 0

\* C8 as stated: a performMeasurement call with an implausible distance records
\* exactly one sensor fault and issues zero publish operations on the bus.
C8_OneFaultNoPublish ==
  (last.measured /\ ~last.mPlausible) =>
    (Len(last.mLogged) = 1 /\ last.mOut = <<>>)

\* C8 amended: a performMeasurement call with an implausible distance records
\* exactly one sensor fault, publishes no telemetry, and its only publish is the
\* echo of that fault on the lastError topic when the bus session exists.
C8_OneFaultEchoOnly ==
  \A duration \in ImplausibleDurations, forceSend \in BOOLEAN :
    LET r == performMeasurement(St, forceSend, duration)
    IN /\ r.last.mLogged = <<SensorFault(duration)>>
       /\ r.errorlog.has
       /\ stripTimestamp(r.errorlog.val) = SensorFault(duration)
       /\ TelemetryOf(r.last.mOut) = <<>>
       /\ Len(r.last.mOut) = IF mqttConnected THEN 1 ELSE 0
       /\ \A i \in 1..Len(r.last.mOut) :
            /\ r.last.mOut[i].topic = TOPIC_LAST_ERROR
            /\ r.last.mOut[i].payload = r.errorlog.val

\* an implausible reading whose fault was echoed on the bus
C8_Witness ==
  /\ last.measured
  /\ ~last.mPlausible
  /\ Len(last.mOut) = 1
  /\ last.mOut[1].topic = TOPIC_LAST_ERROR
  /\ stripTimestamp(last.mOut[1].payload) = SensorFault(last.mDuration)

\* the messages setup() compares the persisted entry with
SuppressedAtBoot ==
  {ResetMessage(resetReason), MSG_OTA_OK, MSG_OTA_START, MSG_OTA_FAILED}

\* the publishes of setup(): "online", then the persisted entry if it is
\* re-published, then the echo of the reset-reason message
RepublishedAtBoot ==
  /\ Len(out) >= 3
  /\ out[2].topic = TOPIC_LAST_ERROR
  /\ out[2].payload = last.prevErr
  /\ out[3].topic = TOPIC_LAST_ERROR
  /\ stripTimestamp(out[3].payload) = ResetMessage(resetReason)

\* C9: at boot the persisted fault entry is re-published if and only if an entry
\* exists and its body (the text after the first " -- ") is neither the current
\* boot's reset-reason message nor one of the three firmware-update messages.
C9_RepublishAtBoot ==
  (last.op = "setup" /\ last.measured) =>
    /\ RepublishedAtBoot <=>
         (last.hadEntry /\ stripTimestamp(last.prevErr) \notin SuppressedAtBoot)
    /\ last.republished <=> RepublishedAtBoot

\* a boot that re-published the entry of the boot before
C9_Witness ==
  /\ last.op = "setup"
  /\ last.measured
  /\ last.hadEntry
  /\ RepublishedAtBoot
  /\ boots = 2

\* the bodies of the lifecycle faults
LifecycleBodies ==
  {ResetMessage(r) : r \in ResetReasons}
    \cup {MSG_OTA_START, MSG_OTA_OK, MSG_OTA_FAILED, MSG_DAILY_REBOOT}

\* C10: no lifecycle fault persisted during one boot (a reset-reason message, an
\* update start/success/failure message, the scheduled-daily-restart message) is
\* re-published by setup() of the next boot.
C10_LifecycleNotReannounced ==
  (last.op = "setup" /\ RepublishedAtBoot) =>
    stripTimestamp(last.prevErr) \notin LifecycleBodies

\* the last element of a non-empty sequence
Last(seq) == seq[Len(seq)]

\* how often x occurs in seq
CountOf(seq, x) == Len(SelectSeq(seq, LAMBDA m : m = x))

\* the retained presence marker of a new session
OnlineMarker ==
  [topic |-> TOPIC_STATUS, payload |-> <<"online">>, retained |-> TRUE]

\* the last-sent snapshot
LastSent == <<lastSentDistanceMM, lastSentTrend, lastSendTime>>

\* the steps that run code of loop()
LoopOps == {"loop", "loop_wifi", "loop_mqtt"}

\* C11: the persistent slot holds one entry, the most recently recorded message:
\* a step that records nothing leaves the slot alone, a step that records leaves
\* the message of its last logError call, and setup() first re-arms the slot with
\* the current boot's reset-reason message whatever it held before.
C11_SlotHoldsLatest ==
  [][/\ logged' = <<>> => errorlog' = errorlog
     /\ logged' # <<>> => /\ errorlog'.has
                          /\ stripTimestamp(errorlog'.val) = Last(logged')
     /\ (last'.op = "setup" /\ last'.measured) =>
          logged'[1] = ResetMessage(resetReason')]_vars

\* a boot that found an entry and left the slot with the reset-reason message
C11_Witness ==
  /\ last.op = "setup"
  /\ last.measured
  /\ last.hadEntry
  /\ stripTimestamp(last.prevErr) # ResetMessage(resetReason)
  /\ logged = <<ResetMessage(resetReason)>>
  /\ stripTimestamp(errorlog.val) = ResetMessage(resetReason)

\* C12: a logError call persists its entry whatever the connectivity, publishes
\* it on the lastError topic if and only if the session is connected, and
\* changes nothing else.
C12_LogErrorEcho ==
  \A err \in {MSG_SKIPPED, MSG_DAILY_REBOOT} :
    logError(St, err) =
      [St EXCEPT
         !.errorlog = [has |-> TRUE, val |-> getTimestamp(St) \o <<SEP>> \o err],
         !.logged = <<err>>,
         !.out = IF mqttConnected
                 THEN <<[topic |-> TOPIC_LAST_ERROR,
                         payload |-> getTimestamp(St) \o <<SEP>> \o err,
                         retained |-> TRUE]>>
                 ELSE <<>>]

\* a fault recorded without a session: persisted, nothing published
C12_Witness ==
  /\ last.op \in LoopOps
  /\ ~mqttConnected
  /\ logged # <<>>
  /\ out = <<>>
  /\ errorlog.has
  /\ stripTimestamp(errorlog.val) = Last(logged)

\* C13 as stated: when the measurement interval has elapsed but MQTT is not
\* connected, a publish of the "measurement skipped" error on
\* wasserstand/lastError is issued.
C13_SkipPublished ==
  last.skipped =>
    \E i \in 1..Len(out) :
      /\ out[i].topic = TOPIC_LAST_ERROR
      /\ stripTimestamp(out[i].payload) = MSG_SKIPPED

\* a skipped measurement whose error is the persisted entry
C13_Witness ==
  /\ last.skipped
  /\ out = <<>>
  /\ stripTimestamp(errorlog.val) = MSG_SKIPPED

\* C14: a pass of loop() that reaches a due measurement with no update in
\* progress resets lastMeasurementTime and either measures (session up) or logs
\* exactly one skipped-measurement fault (session down); a skipped cycle does not
\* run performMeasurement and leaves the trend window and the last-sent snapshot
\* unchanged.
C14_SkippedCycle ==
  [][(/\ last'.op \in LoopOps
      /\ pc' = "loop"
      /\ boots' = boots
      /\ ~otaInProgress'
      /\ now - lastMeasurementTime >= MEASUREMENT_INTERVAL_MS) =>
       /\ lastMeasurementTime' = now
       /\ last'.skipped <=> ~mqttConnected'
       /\ last'.measured <=> mqttConnected'
       /\ last'.skipped => /\ CountOf(logged', MSG_SKIPPED) = 1
                           /\ UNCHANGED FirmwareHistory
                           /\ UNCHANGED LastSent]_vars

\* a skipped cycle after the trend window and the snapshot were filled
C14_Witness ==
  /\ last.skipped
  /\ pc = "loop"
  /\ lastMeasurementTime = now
  /\ historyCount > 0
  /\ lastSendTime > 0

\* C15: a step that brings the bus session up publishes the retained "online"
\* marker before anything else, so before every telemetry publish of that step.
C15_OnlineFirst ==
  [][(~mqttConnected /\ mqttConnected') =>
       (out' # <<>> /\ out'[1] = OnlineMarker)]_vars

\* a pass of loop() that reconnected and then published telemetry
C15_Witness ==
  /\ last.op \in LoopOps
  /\ last.attempts >= 1
  /\ mqttConnected
  /\ Len(out) >= 2
  /\ out[1] = OnlineMarker
  /\ TelemetryOf(out) # <<>>

\* C16 as stated: a pass of loop() that reaches the bus-session ensure step
\* attempts a connection exactly when the session is disconnected and at least
\* MQTT_RETRY_MS have elapsed since the last attempt, and every attempt sets the
\* last-attempt timestamp, so that no two attempts are less than MQTT_RETRY_MS
\* apart.
C16_AttemptWhenDue ==
  [][/\ last'.op = "loop" =>
          (last'.attempts >= 1 <=>
             (~mqttConnected /\ now - lastMQTTReconnect >= MQTT_RETRY_MS))
     /\ (last'.op \in LoopOps /\ last'.attempts >= 1) =>
          (/\ lastMQTTReconnect' = now
           /\ now - lastMQTTReconnect >= MQTT_RETRY_MS)]_vars

\* a pass of loop() that attempted a connection
C16_Witness ==
  /\ last.op = "loop"
  /\ last.attempts >= 1
  /\ lastMQTTReconnect = now
  /\ now >= MQTT_RETRY_MS

\* the session is down with the broker up, in loop(), with more than
\* MQTT_RETRY_MS of the run to go
RetryPending ==
  /\ pc \in {"loop", "loop_mqtt"}
  /\ ~mqttConnected
  /\ brokerUp
  /\ now + MQTT_RETRY_MS < RetryHorizon

\* C17: the bus supervisor never gives up: a pass of loop() that finds the
\* session down and more than MQTT_RETRY_MS elapsed since the last attempt makes
\* an attempt, and while the broker is up a session that is down is eventually
\* connected.
C17_NeverGivesUp ==
  /\ [][(last'.op = "loop" /\ ~mqttConnected
           /\ now - lastMQTTReconnect > MQTT_RETRY_MS) =>
          last'.attempts >= 1]_vars
  /\ RetryPending ~> (mqttConnected \/ ~brokerUp)

\* a pass of loop() that brought the session up again after the broker was away
C17_Witness ==
  /\ last.op \in {"loop", "loop_mqtt"}
  /\ faults >= 1
  /\ last.attempts >= 1
  /\ mqttConnected
  /\ out = <<OnlineMarker>>

\* C18 as stated: every pass of loop() invokes the bus service call
\* mqttClient.loop(), whether the session is connected or not.
C18_ServiceEveryTick ==
  (last.op = "loop" /\ pc = "loop") => last.mqttLoops >= 1

\* the steps that record a fault and go on
RecoverableFaults ==
  {MSG_SKIPPED, MSG_OTA_FAILED, MSG_OTA_START} \cup
  {SensorFault(d) : d \in ImplausibleDurations}

C20_NoClockNoOp ==
  ~timeAvailable => checkDailyReboot(St) = St

\* a pass of loop() at the restart minute without a wall clock
C20_Witness ==
  /\ last.op = "loop"
  /\ pc = "loop"
  /\ ~timeAvailable
  /\ tm_hour(wall) = REBOOT_HOUR
  /\ tm_min(wall) = REBOOT_MINUTE
  /\ ~rebootDoneToday
  /\ boots = 1

\* the number of addToHistory calls of the run so far: setup() measures once, and
\* loop() once in every step of the clock after that
Inserted ==
  IF pc # "loop" THEN 0
  ELSE IF last.op = "env" THEN now \div TrendStep - 1 ELSE now \div TrendStep

\* the slot of the k-th insertion of the run
SlotOf(k) == (k - 1) % HISTORY_SIZE

\* the slots in use
Retained == 0..(historyCount - 1)

\* the window as n insertions leave it
WindowOfInserted ==
  /\ historyCount \in 0..HISTORY_SIZE
  /\ historyIndex \in 0..(HISTORY_SIZE - 1)
  /\ historyCount = Min(Inserted, HISTORY_SIZE)
  /\ historyIndex = Inserted % HISTORY_SIZE
  /\ \A k \in (Inserted - historyCount + 1)..Inserted :
       historyTimestamps[SlotOf(k)] = k * TrendStep
  /\ Inserted > HISTORY_SIZE =>
       \A i \in Retained : historyTimestamps[i] # TrendStep

\* C21: after any number of addToHistory calls historyCount is in 0..60 and
\* historyIndex in 0..59, the window holds the most recent min(n, 60) samples of
\* the n inserted, each in the slot of its arrival, the first sample is gone
\* after 61 insertions, and a call writes the slot at historyIndex and no other.
C21_WindowHoldsLatest ==
  [][/\ WindowOfInserted
     /\ WindowOfInserted'
     /\ (last'.measured /\ last'.mPlausible) =>
          /\ historyValues'[historyIndex] = last'.mDist
          /\ historyTimestamps'[historyIndex] = now
          /\ \A i \in 0..(HISTORY_SIZE - 1) :
               i # historyIndex =>
                 /\ historyValues'[i] = historyValues[i]
                 /\ historyTimestamps'[i] = historyTimestamps[i]]_vars

\* the 61st insertion has overwritten the first
C21_Witness ==
  /\ last.measured
  /\ Inserted = HISTORY_SIZE + 1
  /\ historyCount = HISTORY_SIZE
  /\ historyIndex = 1
  /\ historyTimestamps[0] = (HISTORY_SIZE + 1) * TrendStep

\* the slot of the oldest sample of the window
OldestSlot == IF historyCount < HISTORY_SIZE THEN 0 ELSE historyIndex

\* C22 as stated: in every window state, wrapped or not, the elapsed time the
\* regression uses for a retained sample is its timestamp minus the timestamp of
\* the oldest retained sample, so not negative and no larger than the window's
\* span in time.
C22_ElapsedSinceOldest ==
  \A i \in Retained :
    /\ historyTimestamps[i] >= historyTimestamps[OldestSlot]
    /\ TrendX(St, i) = BigOf(historyTimestamps[i] - historyTimestamps[OldestSlot])

\* a wrapped window whose slot 0 is not its oldest
C22_Witness ==
  /\ last.measured
  /\ historyCount = HISTORY_SIZE
  /\ historyIndex = 1
  /\ historyTimestamps[0] > historyTimestamps[1]
  /\ TrendX(St, 1) = BigSub(Big2Pow32, BigOf(historyTimestamps[0] - historyTimestamps[1]))

\* the change of the echo time from one reading to the next, in microseconds
Drift == LatestDuration - PreviousDuration

\* a measurement of the last step whose window holds enough samples for a trend
TrendMeasured ==
  /\ last.measured
  /\ last.mPlausible
  /\ historyCount >= MIN_TREND_SAMPLES

\* C23 as stated: at least 5 samples at strictly increasing times, however many,
\* whose distance decreases by more than 0.1 mm/min are labelled "einlaufend",
\* and "abnehmend" if the distance increases by more than 0.1 mm/min.
C23_LabelFollowsSlope ==
  TrendMeasured =>
    /\ Drift < 0 => last.mTrend = "einlaufend"
    /\ Drift > 0 => last.mTrend = "abnehmend"

\* C23 holds until the ring wraps
C23_LabelBeforeWrap ==
  (TrendMeasured /\ Inserted <= HISTORY_SIZE) =>
    /\ Drift < 0 => last.mTrend = "einlaufend"
    /\ Drift > 0 => last.mTrend = "abnehmend"

\* a wrapped window of steadily decreasing distances labelled "stabil"
C23_Witness ==
  /\ TrendMeasured
  /\ Inserted > HISTORY_SIZE
  /\ Drift < 0
  /\ last.mTrend = "stabil"

\* C24: at least 5 samples of one constant distance at strictly increasing
\* timestamps are labelled "stabil", before and after the ring has wrapped.
C24_ConstantIsStable ==
  (TrendMeasured /\ \A i \in Retained : historyValues[i] = historyValues[0]) =>
    /\ last.mTrend = "stabil"
    /\ getTrendLabel(St) = "stabil"

\* a constant distance in a wrapped window
C24_Witness ==
  /\ TrendMeasured
  /\ Inserted > HISTORY_SIZE + 1
  /\ \A i \in Retained : historyValues[i] = historyValues[0]
  /\ \A i \in Retained : i # OldestSlot =>
       historyTimestamps[i] > historyTimestamps[OldestSlot]
  /\ last.mTrend = "stabil"

\* C25: with fewer than 5 samples in the window the trend label is "stabil"
\* whatever the samples, so each of the first four plausible measurements after
\* a boot reports "stabil".
C25_FewSamplesStable ==
  historyCount < MIN_TREND_SAMPLES =>
    /\ getTrendLabel(St) = "stabil"
    /\ (last.measured /\ last.mPlausible) => last.mTrend = "stabil"

\* the fourth measurement of a distance that changes by 0.16868 mm/min
C25_Witness ==
  /\ last.measured
  /\ last.mPlausible
  /\ historyCount = MIN_TREND_SAMPLES - 1
  /\ Drift # 0
  /\ last.mTrend = "stabil"

\* echo times 50 us apart whose distance is plausible
PlausibleReadings ==
  {d \in 0..12000 : d % 50 = 0 /\ Plausible(d * US_TO_MM_FACTOR)}

\* C26: for every plausible distance the percentage lies in 0..100, is 0 from
\* DIST_EMPTY_MM on, 100 up to DIST_FULL_MM and does not increase with the
\* distance; so is the percentage of every measurement taken.
C26_PercentageRange ==
  /\ \A d \in PlausibleReadings :
       /\ Percentage(d * US_TO_MM_FACTOR) \in 0..(100 * PercentUnit)
       /\ d * US_TO_MM_FACTOR >= DIST_EMPTY_MM * UNITS_PER_MM =>
            Percentage(d * US_TO_MM_FACTOR) = 0
       /\ d * US_TO_MM_FACTOR <= DIST_FULL_MM * UNITS_PER_MM =>
            Percentage(d * US_TO_MM_FACTOR) = 100 * PercentUnit
       /\ d + 50 \in PlausibleReadings =>
            Percentage((d + 50) * US_TO_MM_FACTOR) <= Percentage(d * US_TO_MM_FACTOR)
  /\ (last.measured /\ last.mPlausible) =>
       /\ last.mPercent \in 0..(100 * PercentUnit)
       /\ last.mPercent = Percentage(last.mDist)
       /\ last.mDist >= DIST_EMPTY_MM * UNITS_PER_MM => last.mPercent = 0
       /\ last.mDist <= DIST_FULL_MM * UNITS_PER_MM =>
            last.mPercent = 100 * PercentUnit

\* a plausible measurement beyond the empty distance: 0 percent
C26_Witness ==
  /\ last.measured
  /\ last.mPlausible
  /\ last.mDist > DIST_EMPTY_MM * UNITS_PER_MM
  /\ last.mPercent = 0

\* the wall clock is known and shows the minute of the scheduled restart, which
\* has not been performed yet
RestartDue ==
  /\ timeAvailable
  /\ tm_hour(wall) = REBOOT_HOUR
  /\ tm_min(wall) = REBOOT_MINUTE
  /\ ~rebootDoneToday

\* C27: a pass of loop() runs the daily-restart check whether or not an update
\* is in progress: a pass that returns from otaServer.handleClient() with
\* otaInProgress set skips connectivity and measurement, and restarts if the
\* restart is due as a pass without an update does.
C27_CheckNotGated ==
  [][/\ (last'.op = "loop" /\ otaInProgress /\ RestartDue
           /\ MSG_OTA_OK \notin {logged'[i] : i \in 1..Len(logged')}
           /\ MSG_OTA_FAILED \notin {logged'[i] : i \in 1..Len(logged')}) =>
          /\ boots' = boots + 1
          /\ logged' = <<MSG_DAILY_REBOOT>>
          /\ stripTimestamp(errorlog'.val) = MSG_DAILY_REBOOT
          /\ last'.mqttLoops = 0
          /\ ~last'.measured
     /\ (last'.op = "loop" /\ otaInProgress /\ otaInProgress'
           /\ timeAvailable /\ tm_hour(wall) # REBOOT_HOUR) =>
          ~rebootDoneToday'
     /\ (last'.op = "loop" /\ ~otaInProgress /\ ~otaInProgress'
           /\ pc' = "loop" /\ boots' = boots) =>
          ~RestartDue]_vars

\* the scheduled restart, taken by a pass of loop() during an update
C27_Witness ==
  /\ last.op = "loop"
  /\ last.serviced
  /\ last.mqttLoops = 0
  /\ logged = <<MSG_DAILY_REBOOT>>
  /\ boots = 2
  /\ resetReason = "ESP_RST_SW"
  /\ pc = "setup_wifi"

====
